---- MODULE Spec2Model ----
(***************************************************************************)
(* Model of the chstr! macro (src/src/lib.rs): the compile-time evaluation *)
(* of CHARS, LEN and BUF and the final from_utf8_unchecked wrap, as a      *)
(* state machine whose steps are the loop iterations of the two passes.    *)
(***************************************************************************)
EXTENDS Integers, Sequences, FiniteSets

VARIABLES CHARS, pc, i, len, LEN, buf, offset, writes, str

vars == <<CHARS, pc, i, len, LEN, buf, offset, writes, str>>

(* ---------------------------------------------------------------------- *)
(* Bounds and input alphabets                                              *)
(* ---------------------------------------------------------------------- *)

\* Longest input sequence explored.
MaxN == 3

\* Valid Unicode scalar values explored: 'a' 'b' 'c', and the values on each
\* side of 0x7F/0x80, 0x7FF/0x800, 0xD7FF/0xE000, 0xFFFF/0x10000, 0x10FFFF,
\* plus U+00A2, U+20AC and U+1F600.
Scalars ==
    {97, 98, 99, 127, 128, 162, 2047, 2048, 8364, 55295, 57344, 65535,
     65536, 128512, 1114111}

\* 32-bit values that are not scalar values: the surrogates 0xD800, 0xDFFF,
\* and 0x110000, 0x1FFFFF, 0x210000, 0x7FFFFFFF above 0x10FFFF.
NonScalars == {55296, 57343, 1114112, 2097151, 2162688, 2147483647}

\* Elements explored when the validity of `char` is bypassed.
BypassCodes == NonScalars \cup {97, 162, 8364, 128512}

IsScalar(c) == (0 <= c /\ c <= 55295) \/ (57344 <= c /\ c <= 1114111)

SeqsUpTo(S, n) == UNION {[1..k -> S] : k \in 0..n}

(* ---------------------------------------------------------------------- *)
(* u32 / u8 arithmetic                                                     *)
(* ---------------------------------------------------------------------- *)

RECURSIVE BitAnd(_, _)
BitAnd(a, b) ==
    IF a = 0 \/ b = 0 THEN 0
    ELSE (a % 2) * (b % 2) + 2 * BitAnd(a \div 2, b \div 2)

RECURSIVE BitOr(_, _)
BitOr(a, b) ==
    IF a = 0 THEN b
    ELSE IF b = 0 THEN a
    ELSE (IF a % 2 = 1 \/ b % 2 = 1 THEN 1 ELSE 0)
         + 2 * BitOr(a \div 2, b \div 2)

Shr(a, k) == a \div (2 ^ k)

AsU8(x) == x % 256

(* ---------------------------------------------------------------------- *)
(* Constants and helpers of the macro body                                 *)
(* ---------------------------------------------------------------------- *)

TAG_TWO_B == 192
TAG_FOUR_B == 240
TAG_CONT_Wrong == TAG_TWO_B
TAG_CONT == 128
TAG_THREE_B_Wrong == TAG_FOUR_B
TAG_THREE_B == 224

\* N = CHARS.len()
N == Len(CHARS)

\* c.len_utf8(): the method of the core library, on the u32 value of the
\* char (1 below MAX_ONE_B = 0x80, 2 below MAX_TWO_B = 0x800, 3 below
\* MAX_THREE_B = 0x10000, else 4); it checks nothing about its argument.
len_utf8(code) ==
    IF code < 128 THEN 1
    ELSE IF code < 2048 THEN 2
    ELSE IF code < 65536 THEN 3
    ELSE 4

\* `while i < N`
LoopCond_Wrong(k, n) == k <= n
LoopCond(k, n) == k < n

\* `[0; LEN]`
Zeroed(n) == [j \in 0..(n - 1) |-> 0]

\* The bytes one arm of `match len` stores at offset+0, offset+1, ...;
\* the empty tuple stands for the `_ => unreachable!()` arm.
EncodeArm_NoFour(code, l) ==
    CASE l = 1 -> <<AsU8(code)>>
      [] l = 2 -> <<BitOr(AsU8(BitAnd(Shr(code, 6), 31)), TAG_TWO_B),
                    BitOr(AsU8(BitAnd(code, 63)), TAG_CONT)>>
      [] l = 3 -> <<BitOr(AsU8(BitAnd(Shr(code, 12), 15)), TAG_THREE_B),
                    BitOr(AsU8(BitAnd(Shr(code, 6), 63)), TAG_CONT),
                    BitOr(AsU8(BitAnd(code, 63)), TAG_CONT)>>
      [] OTHER -> <<>>

EncodeArm_NoThree(code, l) ==
    CASE l = 1 -> <<AsU8(code)>>
      [] l = 2 -> <<BitOr(AsU8(BitAnd(Shr(code, 6), 31)), TAG_TWO_B),
                    BitOr(AsU8(BitAnd(code, 63)), TAG_CONT)>>
      [] l = 4 -> <<BitOr(AsU8(BitAnd(Shr(code, 18), 7)), TAG_FOUR_B),
                    BitOr(AsU8(BitAnd(Shr(code, 12), 63)), TAG_CONT),
                    BitOr(AsU8(BitAnd(Shr(code, 6), 63)), TAG_CONT),
                    BitOr(AsU8(BitAnd(code, 63)), TAG_CONT)>>
      [] OTHER -> <<>>

EncodeArm_SwapCont(code, l) ==
    CASE l = 1 -> <<AsU8(code)>>
      [] l = 2 -> <<BitOr(AsU8(BitAnd(Shr(code, 6), 31)), TAG_TWO_B),
                    BitOr(AsU8(BitAnd(code, 63)), TAG_CONT)>>
      [] l = 3 -> <<BitOr(AsU8(BitAnd(Shr(code, 12), 15)), TAG_THREE_B),
                    BitOr(AsU8(BitAnd(code, 63)), TAG_CONT),
                    BitOr(AsU8(BitAnd(Shr(code, 6), 63)), TAG_CONT)>>
      [] l = 4 -> <<BitOr(AsU8(BitAnd(Shr(code, 18), 7)), TAG_FOUR_B),
                    BitOr(AsU8(BitAnd(Shr(code, 12), 63)), TAG_CONT),
                    BitOr(AsU8(BitAnd(Shr(code, 6), 63)), TAG_CONT),
                    BitOr(AsU8(BitAnd(code, 63)), TAG_CONT)>>
      [] OTHER -> <<>>

EncodeArm_Mask3F(code, l) ==
    CASE l = 1 -> <<AsU8(code)>>
      [] l = 2 -> <<BitOr(AsU8(BitAnd(Shr(code, 6), 31)), TAG_TWO_B),
                    BitOr(AsU8(BitAnd(code, 63)), TAG_CONT)>>
      [] l = 3 -> <<BitOr(AsU8(BitAnd(Shr(code, 12), 15)), TAG_THREE_B),
                    BitOr(AsU8(BitAnd(Shr(code, 6), 63)), TAG_CONT),
                    BitOr(AsU8(BitAnd(code, 63)), TAG_CONT)>>
      [] l = 4 -> <<BitOr(AsU8(BitAnd(Shr(code, 18), 7)), TAG_FOUR_B),
                    BitOr(AsU8(BitAnd(Shr(code, 12), 15)), TAG_CONT),
                    BitOr(AsU8(BitAnd(Shr(code, 6), 63)), TAG_CONT),
                    BitOr(AsU8(BitAnd(code, 63)), TAG_CONT)>>
      [] OTHER -> <<>>

EncodeArm(code, l) ==
    CASE l = 1 -> <<AsU8(code)>>
      [] l = 2 -> <<BitOr(AsU8(BitAnd(Shr(code, 6), 31)), TAG_TWO_B),
                    BitOr(AsU8(BitAnd(code, 63)), TAG_CONT)>>
      [] l = 3 -> <<BitOr(AsU8(BitAnd(Shr(code, 12), 15)), TAG_THREE_B),
                    BitOr(AsU8(BitAnd(Shr(code, 6), 63)), TAG_CONT),
                    BitOr(AsU8(BitAnd(code, 63)), TAG_CONT)>>
      [] l = 4 -> <<BitOr(AsU8(BitAnd(Shr(code, 18), 7)), TAG_FOUR_B),
                    BitOr(AsU8(BitAnd(Shr(code, 12), 63)), TAG_CONT),
                    BitOr(AsU8(BitAnd(Shr(code, 6), 63)), TAG_CONT),
                    BitOr(AsU8(BitAnd(code, 63)), TAG_CONT)>>
      [] OTHER -> <<>>

\* `len += c.len_utf8()` of the length pass
AddLen_One(acc, code) == acc + 1
AddLen(acc, code) == acc + len_utf8(code)

\* `offset += len`
NextOffset_One(off, l) == off + 1
NextOffset_Stuck(off, l) == off
NextOffset(off, l) == off + l

(* ---------------------------------------------------------------------- *)
(* State machine                                                           *)
(* ---------------------------------------------------------------------- *)

InitWith(inputs) ==
    /\ CHARS \in inputs
    /\ pc = "len"
    /\ i = 0
    /\ len = 0
    /\ LEN = 0
    /\ buf = <<>>
    /\ offset = 0
    /\ writes = <<>>
    /\ str = <<>>

\* Inputs are `char`s, hence valid scalar values.
Init == InitWith(SeqsUpTo(Scalars, MaxN))

\* The validity of `char` bypassed by the caller.
InitBypass == InitWith(SeqsUpTo(BypassCodes, MaxN))

\* One iteration of the loop of LEN.
LenStep ==
    /\ pc = "len"
    /\ LoopCond(i, N)
    /\ IF i + 1 \in DOMAIN CHARS
       THEN /\ len' = AddLen(len, CHARS[i + 1])
            /\ i' = i + 1
            /\ pc' = pc
       ELSE /\ pc' = "oob"
            /\ UNCHANGED <<len, i>>
    /\ UNCHANGED <<CHARS, LEN, buf, offset, writes, str>>

\* Exit of the loop of LEN; BUF starts with a zeroed array of LEN bytes.
LenDone ==
    /\ pc = "len"
    /\ ~LoopCond(i, N)
    /\ LEN' = len
    /\ buf' = Zeroed(len)
    /\ writes' = Zeroed(len)
    /\ offset' = 0
    /\ i' = 0
    /\ pc' = "enc"
    /\ UNCHANGED <<CHARS, len, str>>

\* One iteration of the loop of BUF.
EncStep ==
    /\ pc = "enc"
    /\ LoopCond(i, N)
    /\ IF i + 1 \notin DOMAIN CHARS
       THEN /\ pc' = "oob"
            /\ UNCHANGED <<buf, writes, offset, i>>
       ELSE LET code  == CHARS[i + 1]
                l     == len_utf8(code)
                bytes == EncodeArm(code, l)
                idx   == {offset + k : k \in 0..(Len(bytes) - 1)}
            IN  IF bytes = <<>>
                THEN /\ pc' = "unreachable"
                     /\ UNCHANGED <<buf, writes, offset, i>>
                ELSE IF \E j \in idx : j >= LEN
                THEN /\ pc' = "oob"
                     /\ UNCHANGED <<buf, writes, offset, i>>
                ELSE /\ buf' = [j \in DOMAIN buf |->
                                  IF j \in idx THEN bytes[j - offset + 1]
                                  ELSE buf[j]]
                     /\ writes' = [j \in DOMAIN writes |->
                                  IF j \in idx THEN writes[j] + 1
                                  ELSE writes[j]]
                     /\ offset' = NextOffset(offset, l)
                     /\ i' = i + 1
                     /\ pc' = pc
    /\ UNCHANGED <<CHARS, len, LEN, str>>

\* Exit of the loop of BUF: `buf` becomes the constant BUF.
EncDone ==
    /\ pc = "enc"
    /\ ~LoopCond(i, N)
    /\ pc' = "wrap"
    /\ UNCHANGED <<CHARS, i, len, LEN, buf, offset, writes, str>>

\* from_utf8_unchecked(&BUF)
Wrap ==
    /\ pc = "wrap"
    /\ str' = buf
    /\ pc' = "done"
    /\ UNCHANGED <<CHARS, i, len, LEN, buf, offset, writes>>

\* Evaluation of `const CHARS: &[char]` refused because an element is not a
\* valid `char` (one outcome of the undefined behaviour of such a value).
RejectChars ==
    /\ pc = "len"
    /\ i = 0
    /\ \E k \in DOMAIN CHARS : ~IsScalar(CHARS[k])
    /\ pc' = "rejected"
    /\ UNCHANGED <<CHARS, i, len, LEN, buf, offset, writes, str>>

Next == LenStep \/ LenDone \/ EncStep \/ EncDone \/ Wrap

NextBypass == Next \/ RejectChars

Spec == Init /\ [][Next]_vars

SpecBypass == InitBypass /\ [][NextBypass]_vars

(* ---------------------------------------------------------------------- *)
(* Reference definitions used by the properties                            *)
(* ---------------------------------------------------------------------- *)

\* A zero-indexed byte array as a sequence.
BufSeq(b) == [k \in 1..Cardinality(DOMAIN b) |-> b[k - 1]]

Range(s) == {s[k] : k \in DOMAIN s}

IsCont(b) == 128 <= b /\ b < 192

IsSurrogate(v) == 55296 <= v /\ v <= 57343

\* Number of bytes announced by a lead byte, 0 when it is not a lead byte.
LeadLen(b) ==
    IF b < 128 THEN 1
    ELSE IF 192 <= b /\ b < 224 THEN 2
    ELSE IF 224 <= b /\ b < 240 THEN 3
    ELSE IF 240 <= b /\ b < 248 THEN 4
    ELSE 0

\* Left-to-right split of a byte sequence into UTF-8 groups <<k, value>>;
\* a stray continuation byte, an invalid lead byte or a truncated group
\* ends the split with the group <<0, -1>>.
RECURSIVE Groups(_)
Groups(s) ==
    IF s = <<>> THEN <<>>
    ELSE LET b0 == Head(s)
             k  == LeadLen(b0)
         IN  IF k = 0 \/ Len(s) < k \/ \E j \in 2..k : ~IsCont(s[j])
             THEN << <<0, -1>> >>
             ELSE LET v == CASE k = 1 -> b0
                             [] k = 2 -> (b0 - 192) * 64 + (s[2] % 64)
                             [] k = 3 -> (b0 - 224) * 4096 + (s[2] % 64) * 64
                                         + (s[3] % 64)
                             [] k = 4 -> (b0 - 240) * 262144
                                         + (s[2] % 64) * 4096
                                         + (s[3] % 64) * 64 + (s[4] % 64)
                  IN  << <<k, v>> >> \o Groups(SubSeq(s, k + 1, Len(s)))

\* Well-formed grouping: whole groups only, none encoding a surrogate or a
\* value above 0x10FFFF.
WellFormed(s) ==
    \A g \in Range(Groups(s)) :
        g[1] # 0 /\ ~IsSurrogate(g[2]) /\ g[2] <= 1114111

\* A group that is not overlong.
NotOverlong(g) ==
    /\ g[1] = 2 => g[2] >= 128
    /\ g[1] = 3 => g[2] >= 2048
    /\ g[1] = 4 => g[2] >= 65536

\* Well-formed UTF-8 in the sense of the Unicode standard (what
\* core::str::from_utf8 accepts).
ValidUtf8(s) == WellFormed(s) /\ \A g \in Range(Groups(s)) : NotOverlong(g)

\* Strict UTF-8 decoding: the scalar values, or <<-1>> for invalid input.
DecodeUtf8(s) ==
    IF ValidUtf8(s)
    THEN [k \in 1..Len(Groups(s)) |-> Groups(s)[k][2]]
    ELSE <<-1>>

\* Encoded length of a scalar value as the specification states it.
SpecLen(c) ==
    IF c <= 127 THEN 1
    ELSE IF c <= 2047 THEN 2
    ELSE IF c <= 65535 THEN 3
    ELSE 4

\* Sum of SpecLen over the first k elements of CHARS.
RECURSIVE SumSpecLen(_)
SumSpecLen(k) == IF k = 0 THEN 0 ELSE SumSpecLen(k - 1) + SpecLen(CHARS[k])

\* Payload bits of the k-byte UTF-8 form.
PayloadBits == <<7, 11, 16, 21>>

\* Smallest k whose UTF-8 form can represent c.
MinBytes(c) ==
    CHOOSE k \in 1..4 :
        /\ c < 2 ^ PayloadBits[k]
        /\ \A m \in 1..(k - 1) : c >= 2 ^ PayloadBits[m]

\* The standard UTF-8 table, by division and remainder.
StdTable(c) ==
    IF c <= 127 THEN <<c>>
    ELSE IF c <= 2047 THEN <<192 + ((c \div 64) % 32), 128 + (c % 64)>>
    ELSE IF c <= 65535
    THEN <<224 + ((c \div 4096) % 16), 128 + ((c \div 64) % 64), 128 + (c % 64)>>
    ELSE <<240 + ((c \div 262144) % 8), 128 + ((c \div 4096) % 64),
           128 + ((c \div 64) % 64), 128 + (c % 64)>>

RECURSIVE ConcatTable(_)
ConcatTable(k) ==
    IF k = 0 THEN <<>> ELSE ConcatTable(k - 1) \o StdTable(CHARS[k])

\* Byte patterns quoted by the specification.
KnownBytes ==
    [c \in {97, 127, 128, 162, 2047, 2048, 8364, 65535, 65536, 128512,
            1114111} |->
        CASE c = 97      -> <<97>>
          [] c = 127     -> <<127>>
          [] c = 128     -> <<194, 128>>
          [] c = 162     -> <<194, 162>>
          [] c = 2047    -> <<223, 191>>
          [] c = 2048    -> <<224, 160, 128>>
          [] c = 8364    -> <<226, 130, 172>>
          [] c = 65535   -> <<239, 191, 191>>
          [] c = 65536   -> <<240, 144, 128, 128>>
          [] c = 128512  -> <<240, 159, 152, 128>>
          [] c = 1114111 -> <<244, 143, 191, 191>>]

\* Concatenation of what the match arms emit for the first k elements.
RECURSIVE ConcatArms(_)
ConcatArms(k) ==
    IF k = 0 THEN <<>>
    ELSE ConcatArms(k - 1) \o EncodeArm(CHARS[k], len_utf8(CHARS[k]))

AllScalar == \A k \in DOMAIN CHARS : IsScalar(CHARS[k])

(* ---------------------------------------------------------------------- *)
(* Properties                                                              *)
(* ---------------------------------------------------------------------- *)

\* C1: round trip. Decoding the finished text left to right as UTF-8
\* yields exactly the input sequence: same length, values and order, no
\* byte left over.
C1_RoundTrip == pc = "done" => DecodeUtf8(BufSeq(str)) = CHARS

C1_Witness ==
    /\ pc = "done"
    /\ N = 3
    /\ CHARS[1] = 128512 /\ CHARS[2] = 97 /\ CHARS[3] = 8364

\* C2: the buffer handed to from_utf8_unchecked splits into whole groups of
\* a lead byte and its 0..3 continuation bytes, none encoding a surrogate
\* or a value above 0x10FFFF.
C2_WellFormed == pc = "wrap" => WellFormed(BufSeq(buf))

C2_Witness == pc = "wrap" /\ N = 3 /\ CHARS[1] = 57344 /\ CHARS[3] = 1114111

\* C3: length additivity. LEN is the sum over the elements of the encoded
\* length (1 up to 0x7F, 2 up to 0x7FF, 3 up to 0xFFFF, else 4), and the
\* buffer and the text have exactly that many bytes.
C3_LengthAdditive ==
    /\ pc \in {"enc", "wrap", "done"} =>
          /\ LEN = SumSpecLen(N)
          /\ Cardinality(DOMAIN buf) = SumSpecLen(N)
    /\ pc = "done" => Len(BufSeq(str)) = SumSpecLen(N)

C3_Witness == pc = "done" /\ N = 3 /\ LEN = 9 /\ CHARS[1] = 2047

\* C4: minimality. Element j is emitted as a group of the smallest number
\* of bytes that can represent it, and no emitted group is overlong.
C4_Minimal ==
    pc = "done" =>
        LET g == Groups(BufSeq(str))
        IN  /\ Len(g) = N
            /\ \A j \in 1..N : g[j][1] = MinBytes(CHARS[j]) /\ NotOverlong(g[j])

C4_Witness ==
    pc = "done" /\ N = 3 /\ CHARS[1] = 128 /\ CHARS[2] = 2048 /\ CHARS[3] = 65536

\* C5: exact byte layout. The text is, element by element, the standard
\* UTF-8 table, and the quoted characters and boundary values give the
\* quoted bytes.
C5_ByteLayout ==
    pc = "done" =>
        /\ BufSeq(str) = ConcatTable(N)
        /\ (N = 1 /\ CHARS[1] \in DOMAIN KnownBytes) =>
               BufSeq(str) = KnownBytes[CHARS[1]]

C5_Witness == pc = "done" /\ N = 1 /\ CHARS[1] = 8364

\* C6: order preservation. After i elements the written part of the buffer
\* is the concatenation, in input order, of the bytes emitted for those
\* elements, so the result for S ++ T is the result for S followed by the
\* result for T; an all-ASCII input of N elements gives N bytes, byte k the
\* code point of element k.
C6_Concatenation ==
    /\ pc = "enc" => SubSeq(BufSeq(buf), 1, offset) = ConcatArms(i)
    /\ pc = "done" =>
          /\ BufSeq(str) = ConcatArms(N)
          /\ \A k \in 0..N :
                SubSeq(BufSeq(str), 1, Len(ConcatArms(k))) = ConcatArms(k)
          /\ (\A k \in 1..N : CHARS[k] <= 127) => BufSeq(str) = CHARS

C6_Witness == pc = "done" /\ CHARS = <<97, 98, 99>> /\ BufSeq(str) = <<97, 98, 99>>

\* C7: empty input. With N = 0 no loop body runs, LEN is 0, nothing is
\* written and the result is the empty text.
C7_Empty ==
    N = 0 =>
        /\ pc \in {"len", "enc", "wrap", "done"}
        /\ i = 0 /\ len = 0 /\ LEN = 0 /\ offset = 0
        /\ DOMAIN buf = {} /\ DOMAIN writes = {}
        /\ pc = "done" => BufSeq(str) = <<>>

C7_Witness == N = 0 /\ pc = "done"

\* C8: for valid scalar values every iteration of the encode pass computes
\* a length in 1..4 and stores within the buffer, the unreachable!() arm is
\* never taken, and the pass runs its N iterations and returns the buffer.
C8_NeverUnreachable ==
    /\ pc \in {"len", "enc", "wrap", "done"}
    /\ pc = "enc" => i <= N
    /\ (pc = "enc" /\ i < N) =>
          /\ len_utf8(CHARS[i + 1]) \in 1..4
          /\ EncodeArm(CHARS[i + 1], len_utf8(CHARS[i + 1])) # <<>>
          /\ offset + len_utf8(CHARS[i + 1]) <= LEN

C8_Witness == pc = "wrap" /\ N = 3 /\ CHARS[3] = 1114111 /\ CHARS[1] = 65536

C10_Offset ==
    /\ pc # "oob"
    /\ pc = "enc" =>
          /\ offset = SumSpecLen(i)
          /\ offset <= LEN
          /\ \A j \in DOMAIN writes :
                /\ writes[j] = IF j < offset THEN 1 ELSE 0
                /\ j >= offset => buf[j] = 0
    /\ pc \in {"wrap", "done"} =>
          /\ offset = LEN
          /\ \A j \in DOMAIN writes : writes[j] = 1

C10_Witness == pc = "wrap" /\ N = 3 /\ offset = 9 /\ CHARS[2] = 128512

====
